---- MODULE Spec2Model ----
(***************************************************************************)
(* Model of the analytical core of Arcadia:                                 *)
(*   src/core/performance_analyzer.py  (PerformanceAnalyzer)                *)
(*   src/core/progress_tracker.py      (ProgressTracker)                    *)
(*                                                                          *)
(* Both classes are libraries of synchronous functions over pandas series. *)
(* The state is the two constructed objects (their configuration) and the  *)
(* last call made on them: which operation, with which arguments, and what *)
(* it returned or raised.                                                   *)
(*                                                                          *)
(* Numbers. The code computes in IEEE doubles through numpy: a division by *)
(* zero does not raise, it yields nan or +/-inf. The model keeps floats as *)
(* exact rationals plus nan/inf ("F values"), which is what the doubles    *)
(* hold for the small integer observations the model draws. A standard     *)
(* deviation or a correlation is a square root: it is kept as a signed     *)
(* root of a rational ("R values"), compared through its square.           *)
(***************************************************************************)
EXTENDS Integers, Sequences, FiniteSets

VARIABLES threshold_multiplier, lookback_periods, call, result

vars == <<threshold_multiplier, lookback_periods, call, result>>

----------------------------------------------------------------------------
(* Bounds of the model *)

\* observations are drawn from 0..MaxVal
MaxVal == 2
\* longest series handed to detect_outliers and _calculate_trend
MaxLen == 5
\* most rows of a DataFrame handed to analyze_performance
MaxRows == 2
\* longest raw series / clean series handed to _analyze_improvement_needs
MaxRaw == 1
MaxClean == 3
\* a drawn report's trend strengths are k/StrengthDen, k in 0..StrengthDen
StrengthDen == 1
\* a drawn report's total_progress values are 100*k/ProgressSteps
ProgressSteps == 2

----------------------------------------------------------------------------
(* F values: numpy float64 as exact rationals with nan and +/-inf *)

Abs(x) == IF x < 0 THEN -x ELSE x

Sign(x) == IF x < 0 THEN -1 ELSE IF x = 0 THEN 0 ELSE 1

RECURSIVE GCD(_, _)
GCD(a, b) == IF b = 0 THEN a ELSE GCD(b, a % b)

\* the rational n/d, d # 0, in lowest terms with a positive denominator
Fin(n, d) ==
    LET g == GCD(Abs(n), Abs(d))
        s == IF d < 0 THEN -1 ELSE 1
    IN  [k |-> "fin", n |-> s * (n \div g), d |-> s * (d \div g)]

NaN == [k |-> "nan", n |-> 0, d |-> 1]

\* +inf (s = 1) or -inf (s = -1)
Inf(s) == [k |-> "inf", n |-> s, d |-> 1]

Int2F(i) == [k |-> "fin", n |-> i, d |-> 1]

FNeg(a) == IF a.k = "nan" THEN NaN ELSE [a EXCEPT !.n = -a.n]

FAdd(a, b) ==
    IF a.k = "nan" \/ b.k = "nan" THEN NaN
    ELSE IF a.k = "inf" /\ b.k = "inf" THEN (IF a.n = b.n THEN a ELSE NaN)
    ELSE IF a.k = "inf" THEN a
    ELSE IF b.k = "inf" THEN b
    ELSE Fin(a.n * b.d + b.n * a.d, a.d * b.d)

FSub(a, b) == FAdd(a, FNeg(b))

FMul(a, b) ==
    IF a.k = "nan" \/ b.k = "nan" THEN NaN
    ELSE IF a.k = "inf" \/ b.k = "inf"
         THEN (IF a.n = 0 \/ b.n = 0 THEN NaN ELSE Inf(Sign(a.n) * Sign(b.n)))
    ELSE Fin(a.n * b.n, a.d * b.d)

\* numpy true division: x/0 is nan (x = 0) or +/-inf, never an exception
FDiv(a, b) ==
    IF a.k = "nan" \/ b.k = "nan" THEN NaN
    ELSE IF a.k = "inf" THEN (IF b.k = "inf" THEN NaN
                              ELSE IF b.n < 0 THEN Inf(-a.n) ELSE a)
    ELSE IF b.k = "inf" THEN Int2F(0)
    ELSE IF b.n = 0 THEN (IF a.n = 0 THEN NaN ELSE Inf(Sign(a.n)))
    ELSE Fin(a.n * b.d, a.d * b.n)

\* a < b ; any comparison with nan is false
FLt(a, b) ==
    IF a.k = "nan" \/ b.k = "nan" THEN FALSE
    ELSE IF a.k = "inf" THEN (a.n < 0 /\ ~(b.k = "inf" /\ b.n < 0))
    ELSE IF b.k = "inf" THEN b.n > 0
    ELSE a.n * b.d < b.n * a.d

FGt(a, b) == FLt(b, a)

FLe(a, b) == FLt(a, b) \/ (a.k # "nan" /\ a = b)

----------------------------------------------------------------------------
(* R values: sign * sqrt(sq) for a rational sq >= 0, with nan and +/-inf *)

RNaN == [k |-> "nan", sign |-> 0, sq |-> Int2F(0)]

RInf(s) == [k |-> "inf", sign |-> s, sq |-> Int2F(0)]

RZero == [k |-> "fin", sign |-> 0, sq |-> Int2F(0)]

\* the non-negative square root of the F value v
RSqrt(v) ==
    IF v.k = "nan" THEN RNaN
    ELSE IF v.k = "inf" THEN (IF v.n > 0 THEN RInf(1) ELSE RNaN)
    ELSE IF v.n < 0 THEN RNaN
    ELSE [k |-> "fin", sign |-> Sign(v.n), sq |-> v]

RNeg(r) == [r EXCEPT !.sign = -r.sign]

\* the F value a divided by the non-negative root r (numpy semantics)
FDivR(a, r) ==
    IF a.k = "nan" \/ r.k = "nan" THEN RNaN
    ELSE IF a.k = "inf" THEN (IF r.k = "inf" THEN RNaN ELSE RInf(a.n))
    ELSE IF r.k = "inf" THEN RZero
    ELSE IF r.sign = 0 THEN (IF a.n = 0 THEN RNaN ELSE RInf(Sign(a.n)))
    ELSE [k |-> "fin", sign |-> Sign(a.n), sq |-> FDiv(FMul(a, a), r.sq)]

\* r < t for an F value t that is finite
RLtF(r, t) ==
    IF r.k = "nan" THEN FALSE
    ELSE IF r.k = "inf" THEN r.sign < 0
    ELSE IF r.sign >= 0
         THEN t.n > 0 /\ FLt(r.sq, FMul(t, t))
         ELSE t.n >= 0 \/ FGt(r.sq, FMul(t, t))

\* r > t for an F value t that is finite
RGtF(r, t) == RLtF(RNeg(r), FNeg(t))

----------------------------------------------------------------------------
(* pandas.Series of observations: a sequence of integers *)

SeqsUpTo(S, n) == UNION {[1..m -> S] : m \in 0..n}

Values == 0..MaxVal

RECURSIVE Sum(_)
Sum(s) == IF Len(s) = 0 THEN 0 ELSE Head(s) + Sum(Tail(s))

SumSq(s) == Sum([i \in 1..Len(s) |-> s[i] * s[i]])

\* Series.mean(): nan for an empty series
Mean(s) == IF Len(s) = 0 THEN NaN ELSE Fin(Sum(s), Len(s))

\* Series.var(ddof=1): nan for fewer than two observations
Var(s) ==
    IF Len(s) < 2 THEN NaN
    ELSE Fin(Len(s) * SumSq(s) - Sum(s) * Sum(s), Len(s) * (Len(s) - 1))

\* Series.std(): the sample standard deviation (ddof = 1)
Std(s) == RSqrt(Var(s))

\* the k-th smallest observation, k counted from 0
Kth(s, k) ==
    CHOOSE v \in {s[i] : i \in 1..Len(s)} :
        /\ Cardinality({i \in 1..Len(s) : s[i] < v}) <= k
        /\ k < Cardinality({i \in 1..Len(s) : s[i] <= v})

\* Series.quantile(qn/qd) with pandas' default linear interpolation
Quantile(s, qn, qd) ==
    IF Len(s) = 0 THEN NaN
    ELSE LET pos == (Len(s) - 1) * qn
             j   == pos \div qd
             r   == pos % qd
         IN  IF r = 0 THEN Int2F(Kth(s, j))
             ELSE Fin(qd * Kth(s, j) + r * (Kth(s, j + 1) - Kth(s, j)), qd)

\* Series.median()
Median(s) == Quantile(s, 1, 2)

\* Series.tail(n)
TailN(s, n) == IF Len(s) <= n THEN s ELSE SubSeq(s, Len(s) - n + 1, Len(s))

\* a filter that keeps every observation
KeepAll(s, mask) == s

\* data[~outliers]: the observations whose mask entry is false, in order
RECURSIVE Filter(_, _)
Filter(s, mask) ==
    IF Len(s) = 0 THEN <<>>
    ELSE IF Head(mask) THEN Filter(Tail(s), Tail(mask))
    ELSE <<Head(s)>> \o Filter(Tail(s), Tail(mask))

----------------------------------------------------------------------------
(* Outcomes of a call *)

Returned(v) == [ok |-> TRUE, val |-> v]

Raised(e) == [ok |-> FALSE, exc |-> e]

----------------------------------------------------------------------------
(* PerformanceAnalyzer *)

\* the metric columns analyze_performance looks for, in its order
MetricColumns == <<"accuracy", "reaction_time", "decision_making", "teamwork">>

\* a metric name that metric_configs does not list
UnknownMetric == "kd_ratio"

\* the values of threshold_multiplier the analyzer is constructed with
\* (1.5 is the constructor's default)
Multipliers == {Fin(3, 2), Int2F(1)}

\* IsOutlier with the bounds themselves counted as outliers (<=, >=)
IsOutlierInclusive(x, lower, upper) == FLe(x, lower) \/ FLe(upper, x)

\* one entry of the mask: (data < lower_bound) | (data > upper_bound)
IsOutlier(x, lower, upper) == FLt(x, lower) \/ FGt(x, upper)

\* OutlierBounds with quartiles taken at the lower rank, not interpolated
NearestRankBounds(data, tm) ==
    LET n   == Len(data)
        Q1  == IF n = 0 THEN NaN ELSE Int2F(Kth(data, (n - 1) \div 4))
        Q3  == IF n = 0 THEN NaN ELSE Int2F(Kth(data, (3 * (n - 1)) \div 4))
        IQR == FSub(Q3, Q1)
    IN  [lower |-> FSub(Q1, FMul(tm, IQR)), upper |-> FAdd(Q3, FMul(tm, IQR))]

\* Q1 - threshold_multiplier * IQR and Q3 + threshold_multiplier * IQR,
\* from Series.quantile(0.25) and Series.quantile(0.75)
OutlierBounds(data, tm) ==
    LET Q1  == Quantile(data, 1, 4)
        Q3  == Quantile(data, 3, 4)
        IQR == FSub(Q3, Q1)
    IN  [lower |-> FSub(Q1, FMul(tm, IQR)), upper |-> FAdd(Q3, FMul(tm, IQR))]

\* outliers.sum()
CountTrue(mask) == Cardinality({i \in 1..Len(mask) : mask[i]})

\* (outliers.sum() / len(data)) * 100, a numpy division: 0/0 is nan
OutlierPercentage(total, n) == FMul(FDiv(Int2F(total), Int2F(n)), Int2F(100))

\* detect_outliers(data) of an analyzer with threshold multiplier tm:
\* the pair (outliers, stats)
detect_outliers(data, tm) ==
    LET b        == OutlierBounds(data, tm)
        outliers == [i \in 1..Len(data) |->
                        IsOutlier(Int2F(data[i]), b.lower, b.upper)]
    IN  [outliers |-> outliers,
         stats    |-> [total_outliers     |-> CountTrue(outliers),
                       outlier_percentage |->
                           OutlierPercentage(CountTrue(outliers), Len(data)),
                       lower_bound        |-> b.lower,
                       upper_bound        |-> b.upper]]

\* a detect_outliers that drops the flagged observations from its argument
DataWithoutOutliers(data, tm) == Filter(data, detect_outliers(data, tm).outliers)

\* the caller's series after detect_outliers(data): the method only reads
\* it (quantile, comparisons, len), so it is the series handed in
DataAfterDetect(data, tm) == data

\* the two-sided 5% critical value of r^2 for df degrees of freedom: the
\* p-value of linregress (Student t, df = n - 2) is below 0.05 iff r^2 is above
CriticalRSquared(df) ==
    CASE df = 1 -> Fin(993844, 1000000)
      [] df = 2 -> Fin(902500, 1000000)
      [] df = 3 -> Fin(771480, 1000000)
      [] df = 4 -> Fin(658372, 1000000)
      [] df = 5 -> Fin(569259, 1000000)
      [] df = 6 -> Fin(499474, 1000000)
      [] df = 7 -> Fin(444067, 1000000)
      [] df = 8 -> Fin(399294, 1000000)
      [] OTHER  -> Fin(38416, 38416 + 10000 * df)

\* scipy.stats.linregress(np.arange(n), y) for n >= 1, computed exactly:
\* slope, r_value and whether p_value < 0.05. For n = 1 the x variance is
\* zero: r is set to 0.0 and slope = 0/0 is nan.
LinRegress(y) ==
    LET n   == Len(y)
        Sx  == Sum([i \in 1..n |-> i - 1])
        Sxx == Sum([i \in 1..n |-> (i - 1) * (i - 1)])
        Sy  == Sum(y)
        Sxy == Sum([i \in 1..n |-> (i - 1) * y[i]])
        Cxx == n * Sxx - Sx * Sx
        Cyy == n * SumSq(y) - Sy * Sy
        Cxy == n * Sxy - Sx * Sy
        r   == IF Cxx = 0 \/ Cyy = 0 THEN RZero
               ELSE [k |-> "fin", sign |-> Sign(Cxy),
                     sq |-> Fin(Cxy * Cxy, Cxx * Cyy)]
    IN  [slope   |-> FDiv(Int2F(Cxy), Int2F(Cxx)),
         r_value |-> r,
         p_below |-> IF n = 1 THEN FALSE
                     ELSE IF n = 2 THEN y[1] # y[2]
                     ELSE FGt(r.sq, CriticalRSquared(n - 2))]

\* a direction that reports a slope of 0 as improving
TrendDirectionNonNegative(slope) ==
    IF FLe(Int2F(0), slope) THEN "improving" ELSE "declining"

\* 'improving' if slope > 0 else 'declining'
TrendDirection(slope) ==
    IF FGt(slope, Int2F(0)) THEN "improving" ELSE "declining"

\* 'strong' if |r| > 0.7 else 'moderate' if |r| > 0.3 else 'weak'
TrendStrength(r) ==
    IF FGt(r.sq, Fin(49, 100)) THEN "strong"
    ELSE IF FGt(r.sq, Fin(9, 100)) THEN "moderate"
    ELSE "weak"

\* _calculate_trend(data): linregress raises ValueError ("Inputs must not be
\* empty.") for an empty series and returns for every other length
calculate_trend(data) ==
    IF Len(data) = 0 THEN Raised("ValueError")
    ELSE LET lr == LinRegress(data)
         IN  Returned([direction    |-> TrendDirection(lr.slope),
                       slope        |-> lr.slope,
                       r_squared    |-> lr.r_value.sq,
                       significance |-> lr.p_below,
                       strength     |-> TrendStrength(lr.r_value)])

\* recent_window = 5
recent_window == 5

\* metric_configs
metric_configs ==
    [accuracy        |-> [threshold |-> Int2F(-1), higher_better |-> TRUE],
     reaction_time   |-> [threshold |-> Int2F(1),  higher_better |-> FALSE],
     decision_making |-> [threshold |-> Int2F(-1), higher_better |-> TRUE],
     teamwork        |-> [threshold |-> Int2F(-1), higher_better |-> TRUE]]

\* metric_configs.get(metric, {'threshold': -1.0, 'higher_better': True})
MetricConfig(metric) ==
    IF metric \in DOMAIN metric_configs THEN metric_configs[metric]
    ELSE [threshold |-> Int2F(-1), higher_better |-> TRUE]

\* raw_data.tail(3).mean(): a shorter recent window
RecentMeanShort(raw) == Mean(TailN(raw, recent_window - 2))

\* raw_data.tail(recent_window).mean()
RecentMean(raw) == Mean(TailN(raw, recent_window))

\* NeedsImprovement with a z_score equal to the threshold also triggering
NeedsImprovementInclusive(z, config) ==
    LET t  == config.threshold
        eq == z.k = "fin" /\ z.sign = Sign(t.n) /\ z.sq = FMul(t, t)
    IN  eq \/ (IF config.higher_better THEN RLtF(z, t) ELSE RGtF(z, t))

\* NeedsImprovement with the two directions exchanged
NeedsImprovementSwapped(z, config) ==
    IF config.higher_better THEN RGtF(z, config.threshold)
    ELSE RLtF(z, config.threshold)

\* (z_score < threshold) if higher_better else (z_score > threshold)
NeedsImprovement(z, config) ==
    IF config.higher_better THEN RLtF(z, config.threshold)
    ELSE RGtF(z, config.threshold)

\* _analyze_improvement_needs(raw_data, clean_data, metric): the
\* improvement_analysis record. suggested_target = historical_mean +/-
\* historical_std is kept as the pair (base, offset).
analyze_improvement_needs(raw, clean, metric) ==
    LET recent_mean     == RecentMean(raw)
        historical_mean == Mean(clean)
        historical_std  == Std(clean)
        config          == MetricConfig(metric)
        z_score         == FDivR(FSub(recent_mean, historical_mean),
                                 historical_std)
    IN  [needs_improvement |-> NeedsImprovement(z_score, config),
         z_score           |-> z_score,
         recent_performance |->
            [mean          |-> recent_mean,
             vs_historical |->
                FMul(FDiv(FSub(recent_mean, historical_mean), historical_mean),
                     Int2F(100))],
         suggested_target  |->
            [base   |-> historical_mean,
             offset |-> IF config.higher_better THEN historical_std
                        ELSE RNeg(historical_std)]]

\* the entry analyze_performance builds for one column, the trend given
ColumnAnalysis(data, column, tm, trend) ==
    LET det        == detect_outliers(data, tm)
        clean_data == Filter(data, det.outliers)
    IN  [current_stats |-> [mean   |-> Mean(data),
                            median |-> Median(data),
                            std    |-> Std(data),
                            trend  |-> trend],
         outlier_stats |-> det.stats,
         clean_stats   |-> [mean   |-> Mean(clean_data),
                            median |-> Median(clean_data),
                            std    |-> Std(clean_data)],
         improvement_analysis |->
             analyze_improvement_needs(data, clean_data, column)]

\* analyze_performance(historical_data): historical_data maps each column
\* name to its series. An exception of _calculate_trend is not caught: it
\* ends the whole call.
analyze_performance(frame, tm) ==
    LET present == {c \in DOMAIN frame :
                        \E i \in 1..Len(MetricColumns) : MetricColumns[i] = c}
    IN  IF \E c \in present : ~calculate_trend(frame[c]).ok
        THEN Raised("ValueError")
        ELSE Returned([c \in present |->
                ColumnAnalysis(frame[c], c, tm, calculate_trend(frame[c]).val)])

----------------------------------------------------------------------------
(* ProgressTracker *)

\* the lookback_periods __init__ sets when none is given
DefaultLookbackPeriods ==
    [short_term |-> 7, medium_term |-> 30, long_term |-> 90]

RECURSIVE SumOver(_, _)
\* the sum of f[x] over the finite set S of its domain
SumOver(f, S) ==
    IF S = {} THEN Int2F(0)
    ELSE LET x == CHOOSE y \in S : TRUE
         IN  FAdd(f[x], SumOver(f, S \ {x}))

\* max() of a non-empty finite set of F values
MaxF(S) == CHOOSE a \in S : \A b \in S : FLe(b, a)

\* trend['strength'] if trend['direction'] == 'improving' else -trend['strength']
SignedStrength(trend) ==
    IF trend.direction = "improving" THEN trend.strength
    ELSE FNeg(trend.strength)

\* the score one metric adds: milestone_progress * (1 + trend_strength),
\* trend_strength the largest signed strength over the metric's windows
MetricScore(analysis) ==
    LET trends == analysis.trend_analysis
        trend_strength ==
            MaxF({SignedStrength(trends[w]) : w \in DOMAIN trends})
    IN  FMul(analysis.milestone_progress.total_progress,
             FAdd(Int2F(1), trend_strength))

\* Clamp without the bounds: the average is returned as it is
NoClamp(x) == x

\* min(100, max(0, x)): Python's max keeps 0 unless x > 0, and its min
\* keeps 100 unless the other value is below 100
Clamp(x) ==
    LET lo == IF FGt(x, Int2F(0)) THEN x ELSE Int2F(0)
    IN  IF FLt(lo, Int2F(100)) THEN lo ELSE Int2F(100)

\* _calculate_overall_progress(progress_report): max() over the trends of a
\* metric that has none raises ValueError (max() arg is an empty sequence)
calculate_overall_progress(progress_report) ==
    LET metrics == DOMAIN progress_report
    IN  IF metrics = {} THEN Returned(Int2F(0))
        ELSE IF \E m \in metrics : DOMAIN progress_report[m].trend_analysis = {}
        THEN Raised("ValueError")
        ELSE LET scores == [m \in metrics |-> MetricScore(progress_report[m])]
             IN  Returned(Clamp(FDiv(SumOver(scores, metrics),
                                     Int2F(Cardinality(metrics)))))

\* num_milestones = 5, the default of _track_milestones
DefaultNumMilestones == 5

\* no milestone: next_milestone = None
NoMilestone == [level |-> 0, value |-> NaN, progress |-> NaN]

\* total_progress without the clamp
NoClampProgress(x) == x

\* max(0, min(100, x)): Python's min keeps 100 unless x < 100, and its max
\* keeps 0 unless the other value is above 0
ClampProgress(x) ==
    LET hi == IF FLt(x, Int2F(100)) THEN x ELSE Int2F(100)
    IN  IF FGt(hi, Int2F(0)) THEN hi ELSE Int2F(0)

\* total_progress = (current_value - target_value) / abs(target_value -
\* current_value), times 100 and clamped; called for target # current only
TotalProgress(current, target) ==
    LET diff == FSub(target, current)
        dist == IF FLt(diff, Int2F(0)) THEN FNeg(diff) ELSE diff
    IN  ClampProgress(FMul(FDiv(FSub(current, target), dist), Int2F(100)))

\* linspace that divides the distance into n + 1 steps and stops short of
\* the target
LinspaceOpen(current, target, n, i) ==
    FAdd(current, FDiv(FMul(Int2F(i), FSub(target, current)), Int2F(n + 1)))

\* np.linspace(current_value, target_value, n + 1)[i], i in 0..n
Linspace(current, target, n, i) ==
    FAdd(current, FMul(Int2F(i), FDiv(FSub(target, current), Int2F(n))))

\* the milestone of level i
Milestone(current, target, n, i) ==
    LET value == Linspace(current, target, n, i)
    IN  [level    |-> i,
         value    |-> value,
         progress |-> FMul(FDiv(FSub(value, current), FSub(target, current)),
                           Int2F(100))]

\* a milestone counted as completed when current_value <= value
IsCompletedMirrored(current, value) == FLe(current, value)

\* current_value >= value
IsCompleted(current, value) == FLe(value, current)

\* the levels of S in descending order, as milestones
RECURSIVE MilestoneListDescending(_, _, _, _)
MilestoneListDescending(current, target, n, S) ==
    IF S = {} THEN <<>>
    ELSE LET i == CHOOSE x \in S : \A y \in S : x >= y
         IN  <<Milestone(current, target, n, i)>>
                \o MilestoneListDescending(current, target, n, S \ {i})

\* the levels of S in ascending order, as milestones
RECURSIVE MilestoneList(_, _, _, _)
MilestoneList(current, target, n, S) ==
    IF S = {} THEN <<>>
    ELSE LET i == CHOOSE x \in S : \A y \in S : x <= y
         IN  <<Milestone(current, target, n, i)>>
                \o MilestoneList(current, target, n, S \ {i})

\* _track_milestones(current_value, target_value, num_milestones)
track_milestones(current, target, n) ==
    IF target = current
    THEN [total_progress       |-> Int2F(0),
          next_milestone       |-> NoMilestone,
          remaining_milestones |-> <<>>,
          completed_milestones |-> <<>>]
    ELSE LET done == {i \in 1..n :
                        IsCompleted(current, Linspace(current, target, n, i))}
             open == (1..n) \ done
             next == IF open = {} THEN 0
                     ELSE CHOOSE x \in open : \A y \in open : x <= y
         IN  [total_progress       |-> TotalProgress(current, target),
              next_milestone       |->
                  IF open = {} THEN NoMilestone
                  ELSE Milestone(current, target, n, next),
              remaining_milestones |->
                  MilestoneList(current, target, n, open \ {next}),
              completed_milestones |->
                  MilestoneList(current, target, n, done)]


\* the R value 1
ROne == [k |-> "fin", sign |-> 1, sq |-> Int2F(1)]

\* abs(r)
RAbs(r) == [r EXCEPT !.sign = Abs(r.sign)]

\* the root r divided by the F value f, f finite or nan (numpy semantics)
RDivF(r, f) ==
    IF r.k = "nan" \/ f.k = "nan" THEN RNaN
    ELSE IF f.n = 0 THEN (IF r.sign = 0 THEN RNaN ELSE RInf(r.sign))
    ELSE IF r.k = "inf" THEN RInf(r.sign * Sign(f.n))
    ELSE [k |-> "fin", sign |-> r.sign * Sign(f.n),
          sq |-> FDiv(r.sq, FMul(f, f))]

\* Python's min(cv, 1): 1 when 1 < cv, else cv (so nan stays nan)
MinWithOne(cv) == IF RGtF(cv, Int2F(1)) THEN ROne ELSE cv

\* the score 100 * (1 - m), kept as the root m it is computed from
Score(m) == [scale |-> 100, minus |-> m]

\* _calculate_consistency(data)
calculate_consistency(data) ==
    IF Len(data) < 2 THEN Score(RZero)
    ELSE Score(MinWithOne(RDivF(Std(data), Mean(data))))


\* the keys of lookback_periods in the order the dict is iterated
WindowOrder == <<"short_term", "medium_term", "long_term">>

WindowIndex(w) == CHOOSE j \in 1..Len(WindowOrder) : WindowOrder[j] = w

\* clock ticks per day: timestamps and datetime.now() are counted in ticks
TicksPerDay == 2

\* datetime.now() at reading number i of a call (i counted from 0): the
\* clock shows 0 at the first reading and has advanced by one tick at each
\* reading number of ticks
Now(ticks, i) == Cardinality({p \in ticks : p <= i})

\* history[history.index >= cutoff_date] with
\* cutoff_date = datetime.now() - timedelta(days=days); a history is a
\* sequence of rows [t |-> timestamp, v |-> value]
PeriodData(history, now, days) ==
    SelectSeq(history, LAMBDA row : row.t >= now - days * TicksPerDay)

\* the loop over lookback_periods reads the clock once per window: window w
\* is cut at reading number first + (its position in the dict)
WindowData(history, periods, ticks, first, w) ==
    PeriodData(history, Now(ticks, first + WindowIndex(w) - 1), periods[w])

\* period_data.values
RowValues(rows) == [i \in 1..Len(rows) |-> rows[i].v]

\* scipy.stats.percentileofscore(a, score), kind = 'rank'
PercentileOfScore(a, score) ==
    LET left  == Cardinality({i \in 1..Len(a) : FLt(Int2F(a[i]), score)})
        right == Cardinality({i \in 1..Len(a) : FLe(Int2F(a[i]), score)})
        plus1 == IF left < right THEN 1 ELSE 0
    IN  Fin((left + right + plus1) * 50, Len(a))

\* _compare_with_history(current_value, history)
compare_with_history(current, history, periods, ticks, first) ==
    LET data(w) == WindowData(history, periods, ticks, first, w)
    IN  [w \in {p \in DOMAIN periods : Len(data(p)) > 0} |->
            LET v   == RowValues(data(w))
                avg == Mean(v)
                std == Std(v)
            IN  [average    |-> avg,
                 change     |-> FMul(FDiv(FSub(current, avg), avg), Int2F(100)),
                 z_score    |-> IF RGtF(std, Int2F(0))
                                THEN FDivR(FSub(current, avg), std)
                                ELSE RZero,
                 percentile |-> PercentileOfScore(v, current)]]

\* a trend computed from a single observation on
EnoughForTrendFromOne(n) == n >= 1

\* len(period_data) >= 2
EnoughForTrend(n) == n >= 2

\* _analyze_trend(history)
analyze_trend(history, periods, ticks, first) ==
    LET data(w) == WindowData(history, periods, ticks, first, w)
    IN  [w \in {p \in DOMAIN periods : EnoughForTrend(Len(data(p)))} |->
            LET v  == RowValues(data(w))
                lr == LinRegress(v)
            IN  [slope        |-> lr.slope,
                 direction    |-> TrendDirection(lr.slope),
                 strength     |-> RAbs(lr.r_value),
                 significance |-> lr.p_below,
                 volatility   |-> RDivF(Std(v), Mean(v))]]

\* _calculate_improvement_rate(current_value, history)
calculate_improvement_rate(current, history, periods, ticks, first) ==
    LET data(w) == WindowData(history, periods, ticks, first, w)
    IN  [w \in {p \in DOMAIN periods : Len(data(p)) > 0} |->
            LET start_value  == Int2F(data(w)[1].v)
                total_change == FSub(current, start_value)
                daily_rate   == FDiv(total_change, Int2F(periods[w]))
            IN  [total_change_percent |->
                     FMul(FDiv(total_change, start_value), Int2F(100)),
                 daily_rate    |-> daily_rate,
                 weekly_rate   |-> FMul(daily_rate, Int2F(7)),
                 projected_30d |-> FAdd(current, FMul(daily_rate, Int2F(30))),
                 consistency   |-> calculate_consistency(RowValues(data(w)))]]


\* a missing cell (NaN) of a column; the cell holding the value v is <<v>>
NoValue == <<>>

\* historical_data[metric].dropna(): the rows of the column that hold a
\* value, in the order of the frame, as a history
DropNa(frame, metric) ==
    LET col  == frame.columns[metric]
        keep == SelectSeq([i \in 1..Len(frame.index) |-> i],
                          LAMBDA i : col[i] # NoValue)
    IN  [k \in 1..Len(keep) |->
            [t |-> frame.index[keep[k]], v |-> col[keep[k]][1]]]

\* target_metrics.get(metric) for a metric without a target: None
NoTarget == [k |-> "none", n |-> 0, d |-> 1]

\* a default target one fifth above the current value
DefaultTargetPlusFifth(current) == FAdd(current, Fin(1, 5))

\* current_value * 1.2
DefaultTarget(current) == FMul(current, Fin(6, 5))

\* an entry for every metric that has a column, empty or not
IsReportedAnyColumn(frame, metric) == metric \in DOMAIN frame.columns

\* metric in historical_data.columns and not metric_history.empty
IsReported(frame, metric) ==
    /\ metric \in DOMAIN frame.columns
    /\ Len(DropNa(frame, metric)) > 0

\* clock readings made for one reported metric: one per window in each of
\* _compare_with_history, _analyze_trend and _calculate_improvement_rate
ReadingsPerMetric == 3 * Len(WindowOrder)

\* track_progress(current_stats, historical_data, target_metrics);
\* current_stats is the sequence of the dict's items [metric, value]
track_progress(current_stats, frame, targets, periods, ticks) ==
    LET reported == {i \in 1..Len(current_stats) :
                        IsReported(frame, current_stats[i].metric)}
        first(i) == ReadingsPerMetric * Cardinality({j \in reported : j < i})
        pos(m)   == CHOOSE i \in reported : current_stats[i].metric = m
    IN  [m \in {current_stats[i].metric : i \in reported} |->
            LET i       == pos(m)
                current == current_stats[i].value
                history == DropNa(frame, m)
                nwin    == Len(WindowOrder)
            IN  [current_value |-> current,
                 target_value  |-> IF m \in DOMAIN targets THEN targets[m]
                                   ELSE NoTarget,
                 historical_comparison |->
                     compare_with_history(current, history, periods, ticks,
                                          first(i)),
                 trend_analysis |->
                     analyze_trend(history, periods, ticks, first(i) + nwin),
                 improvement_rate |->
                     calculate_improvement_rate(current, history, periods,
                                                ticks, first(i) + 2 * nwin),
                 milestone_progress |->
                     track_milestones(current,
                                      IF m \in DOMAIN targets THEN targets[m]
                                      ELSE DefaultTarget(current),
                                      DefaultNumMilestones)]]


\* abs(x) of an F value
FAbs(a) == IF a.k = "nan" THEN NaN ELSE [a EXCEPT !.n = Abs(a.n)]

\* progress_report.items(): the metrics of a report in the order of the
\* dict, which is the order the metrics are listed in
ReportOrder(report) == SelectSeq(MetricColumns, LAMBDA m : m \in DOMAIN report)

\* analysis['historical_comparison'].get('short_term', {}).get('change', 0)
ShortTermChange(analysis) ==
    IF "short_term" \in DOMAIN analysis.historical_comparison
    THEN analysis.historical_comparison["short_term"].change
    ELSE Int2F(0)

\* a change of exactly 5 counted as an improvement too
IsImprovementInclusive(change) == FLe(Int2F(5), change)

\* short_term.get('change', 0) > 5
IsImprovement(change) == FGt(change, Int2F(5))

\* short_term.get('change', 0) < -5
IsConcern(change) == FLt(change, Int2F(-5))

\* the first of the completed milestones
FirstMilestone(completed) == completed[1]

\* completed_milestones[-1]
LatestMilestone(completed) == completed[Len(completed)]

\* generate_progress_summary(progress_report): the overall progress is
\* computed first, and its ValueError leaves the call
generate_progress_summary(report) ==
    LET overall == calculate_overall_progress(report)
        order   == ReportOrder(report)
        change(m)    == ShortTermChange(report[m])
        improved     == SelectSeq(order, LAMBDA m : IsImprovement(change(m)))
        declined     == SelectSeq(order, LAMBDA m : IsConcern(change(m)))
        with_done    == SelectSeq(order, LAMBDA m :
                            report[m].milestone_progress.completed_milestones
                                # <<>>)
        with_next    == SelectSeq(order, LAMBDA m :
                            report[m].milestone_progress.next_milestone
                                # NoMilestone)
    IN  IF ~overall.ok THEN overall
        ELSE Returned(
            [overall_progress  |-> overall.val,
             key_improvements  |->
                 [i \in 1..Len(improved) |->
                     [metric |-> improved[i],
                      improvement |-> change(improved[i])]],
             areas_of_concern  |->
                 [i \in 1..Len(declined) |->
                     [metric |-> declined[i],
                      decline |-> FAbs(change(declined[i]))]],
             recent_milestones |->
                 [i \in 1..Len(with_done) |->
                     LET latest == LatestMilestone(
                             report[with_done[i]].milestone_progress
                                 .completed_milestones)
                     IN  [metric |-> with_done[i], level |-> latest.level,
                          value |-> latest.value]],
             next_targets      |->
                 [i \in 1..Len(with_next) |->
                     LET next == report[with_next[i]].milestone_progress
                                     .next_milestone
                     IN  [metric |-> with_next[i], target |-> next.value,
                          progress |-> next.progress]]])


\* the keys of a per-window dict in the order of its items
KeysInOrder(d) == SelectSeq(WindowOrder, LAMBDA w : w \in DOMAIN d)

\* player_preferences = None (or a dict without entries)
NoPreferences == <<>>

\* the messages of a list of suggestions: the text and the window or the
\* practice time it names
Advice(text, about) == [text |-> text, about |-> about]

\* _identify_focus_areas(metric_analysis)
identify_focus_areas(analysis) ==
    LET rates    == analysis.improvement_rate
        trends   == analysis.trend_analysis
        unsteady == SelectSeq(KeysInOrder(rates), LAMBDA w :
                        FLt(rates[w].consistency, Int2F(70)))
        faint    == SelectSeq(KeysInOrder(trends), LAMBDA w :
                        /\ FLt(trends[w].strength, Fin(1, 2))
                        /\ trends[w].direction = "improving")
    IN  [i \in 1..Len(unsteady) |->
            Advice("Improve consistency in performance", unsteady[i])]
        \o [i \in 1..Len(faint) |->
            Advice("Strengthen improvement trend", faint[i])]

\* _suggest_training_adjustments(metric_analysis, player_preferences)
suggest_training_adjustments(analysis, preferences) ==
    LET rates    == analysis.improvement_rate
        trends   == analysis.trend_analysis
        unsteady == SelectSeq(KeysInOrder(rates), LAMBDA w :
                        FLt(rates[w].consistency, Int2F(70)))
        volatile == SelectSeq(KeysInOrder(trends), LAMBDA w :
                        FGt(trends[w].volatility, Fin(1, 5)))
    IN  [i \in 1..Len(unsteady) |->
            Advice("Increase practice frequency", unsteady[i])]
        \o [i \in 1..Len(volatile) |->
            Advice("Focus on stabilizing performance", volatile[i])]
        \o (IF "preferred_practice_time" \in DOMAIN preferences
            THEN <<Advice("Schedule focused practice sessions",
                          preferences["preferred_practice_time"])>>
            ELSE <<>>)

\* the condition of a suggestion: short_term.get('change', 0) < 0 or
\* trend.get('direction') == 'declining'
NeedsSuggestion(analysis) ==
    \/ FLt(ShortTermChange(analysis), Int2F(0))
    \/ /\ "short_term" \in DOMAIN analysis.trend_analysis
       /\ analysis.trend_analysis["short_term"].direction = "declining"

\* 'high' if short_term.get('change', 0) < -5 else 'medium'
Priority(analysis) ==
    IF FLt(ShortTermChange(analysis), Int2F(-5)) THEN "high" ELSE "medium"

\* get_improvement_suggestions(progress_report, player_preferences): the
\* suggestions in the order of the report, those of high priority first
get_improvement_suggestions(report, preferences) ==
    LET needing == SelectSeq(ReportOrder(report),
                             LAMBDA m : NeedsSuggestion(report[m]))
        suggestions ==
            [i \in 1..Len(needing) |->
                [metric   |-> needing[i],
                 priority |-> Priority(report[needing[i]]),
                 focus_areas |-> identify_focus_areas(report[needing[i]]),
                 training_adjustments |->
                     suggest_training_adjustments(report[needing[i]],
                                                  preferences)]]
    IN  SelectSeq(suggestions, LAMBDA s : s.priority = "high")
        \o SelectSeq(suggestions, LAMBDA s : s.priority # "high")

\* a constructor that keeps what it is given
GivenLookbackPeriods(given) == given

\* __init__: lookback_periods or the default windows; None and a dict
\* without entries are both taken as not given
InitLookbackPeriods(given) ==
    IF given = <<>> THEN DefaultLookbackPeriods ELSE given

\* the caller's arguments after a call of the tracker: the methods read
\* them and build new objects (dropna, boolean indexing, new dicts)
ArgumentsAfter(arguments) == arguments


----------------------------------------------------------------------------
(* Inputs of the calls *)

\* the end-to-end scenario's accuracy series
ScenarioSeries == <<70, 71, 69, 70, 68, 70, 71, 40, 40, 40>>

\* a series whose last observation is an outlier for both multipliers
RecentOutlierSeries == <<1, 2, 2, 2, 3, 9>>

Series == SeqsUpTo(Values, MaxLen) \cup {ScenarioSeries}

\* the metric names handed to _analyze_improvement_needs
MetricNames ==
    {MetricColumns[i] : i \in 1..Len(MetricColumns)} \cup {UnknownMetric}

\* the column sets of the DataFrames handed to analyze_performance
FrameColumnSets ==
    {{}, {"accuracy"}, {"reaction_time"}, {UnknownMetric},
     {"accuracy", "reaction_time"}, {"accuracy", UnknownMetric},
     {"reaction_time", UnknownMetric}}

\* DataFrames: every column holds the same number of rows
Frames ==
    UNION {[C -> [1..m -> Values]] : C \in FrameColumnSets, m \in 0..MaxRows}
    \cup {[c \in {"accuracy"} |-> ScenarioSeries],
          [c \in {"accuracy"} |-> RecentOutlierSeries]}

\* the windows a drawn report has trends for
SummaryWindows == {"short_term", "medium_term"}

\* the metrics of a drawn report
SummaryMetrics == {"accuracy", "reaction_time"}

Trends ==
    [direction : {"improving", "declining"},
     strength  : {Fin(i, StrengthDen) : i \in 0..StrengthDen}]

Analyses ==
    [milestone_progress :
        [total_progress : {Fin(100 * i, ProgressSteps) : i \in 0..ProgressSteps}],
     trend_analysis : UNION {[W -> Trends] : W \in SUBSET SummaryWindows}]

\* progress reports: metric -> analysis
Reports == UNION {[M -> Analyses] : M \in SUBSET SummaryMetrics}

\* the current and target values handed to _track_milestones: small values
\* of either sign, and those of the documented examples
MilestoneValues ==
    {Int2F(v) : v \in -1..MaxVal} \cup
    {Int2F(50), Int2F(100), Int2F(200), Int2F(250)}

\* the values of num_milestones
MilestoneCounts == 1..DefaultNumMilestones


\* longest window handed to _calculate_consistency
MaxWindow == 3

\* the observations of such a window: of either sign
SignedValues == -1..MaxVal


\* most rows of a history handed to the tracker
MaxHist == 2

\* timestamps of history rows, in ticks before the first clock reading of
\* the call: exactly on the short-term cutoff, and one day older
HistoryStamps ==
    {-DefaultLookbackPeriods["short_term"] * TicksPerDay,
     -(DefaultLookbackPeriods["short_term"] + 1) * TicksPerDay}

\* the timestamps of the histories handed to _analyze_trend: also a recent one
TrendStamps == HistoryStamps \cup {-1}

\* histories handed to _analyze_trend, in any order of the timestamps
Histories ==
    SeqsUpTo([t : TrendStamps, v : Values], MaxHist)

\* the readings at which the clock advances during _analyze_trend: between
\* two windows
WindowTicks == SUBSET {1, 2}

\* the metrics asked of track_progress
TrackMetrics == {"accuracy", "reaction_time"}

\* cells of a history column: missing, or one recorded value
Cells == {NoValue, <<2>>}

\* the frames handed to track_progress: an index in any order, duplicates
\* included, and for each metric no column, a column of missing values or
\* the column of drawn cells
HistoryFrames ==
    UNION {
        {[index |-> index,
          columns |-> [m \in DOMAIN kind |->
                          IF kind[m] = "blank"
                          THEN [i \in 1..Len(index) |-> NoValue] ELSE cells]] :
            cells \in [1..Len(index) -> Cells],
            kind \in UNION {[cols -> {"blank", "cells"}] :
                               cols \in SUBSET TrackMetrics}} :
        index \in SeqsUpTo(HistoryStamps, MaxHist)}

\* the current values: negative, zero and positive
CurrentValues == {Int2F(-1), Int2F(0), Int2F(2)}

\* current_stats: the items of a dict over the tracked metrics
CurrentStats ==
    {<<>>} \cup
    {<<[metric |-> m, value |-> v]>> : m \in TrackMetrics, v \in CurrentValues}
    \cup
    {<<[metric |-> "accuracy", value |-> v],
       [metric |-> "reaction_time", value |-> v]>> : v \in CurrentValues}

\* target_metrics: no target, or one target for every metric
TargetMetrics == {<<>>, [m \in TrackMetrics |-> Int2F(3)]}

\* the readings at which the clock advances during track_progress: between
\* the computations of the first reported metric
CallTicks == SUBSET {Len(WindowOrder), 2 * Len(WindowOrder)}


\* short-term changes of a drawn report, in percent: on and beyond the two
\* thresholds of the summary, and nan (a zero average)
SummaryChanges == {Int2F(-6), Int2F(-5), Int2F(5), Int2F(6), NaN}

\* historical_comparison of a drawn report: no window, the short-term
\* window, or the medium-term window only
SummaryComparisons ==
    {<<>>, [w \in {"medium_term"} |-> [change |-> Int2F(6)]]} \cup
    {[w \in {"short_term"} |-> [change |-> c]] : c \in SummaryChanges}

\* trend_analysis of a drawn report: no trend, or one short-term trend
SummaryTrends ==
    {<<>>,
     [w \in {"short_term"} |->
         [direction |-> "improving", strength |-> Int2F(1)]]}

\* milestone_progress of a drawn report: what _track_milestones returns for
\* a target at, above and below the current value, and a progress with one
\* milestone of two completed
SummaryMilestones ==
    {track_milestones(Int2F(c), Int2F(t), 2) : c, t \in 1..2} \cup
    {[total_progress       |-> Int2F(50),
      next_milestone       |-> Milestone(Int2F(0), Int2F(2), 2, 2),
      remaining_milestones |-> <<>>,
      completed_milestones |-> <<Milestone(Int2F(0), Int2F(2), 2, 1)>>]}

\* the reports handed to generate_progress_summary
SummaryReports ==
    UNION {[M -> [historical_comparison : SummaryComparisons,
                  trend_analysis        : SummaryTrends,
                  milestone_progress    : SummaryMilestones]] :
              M \in SUBSET SummaryMetrics}


\* the clock at a second call of track_progress: as at the first call, or
\* one tick later from its first reading on
LaterTicks == {{}, {0}}


\* the lookback_periods the tracker is constructed with: none
LookbackArguments == {<<>>}

\* historical_comparison of the reports handed to
\* get_improvement_suggestions, changes in percent
SuggestionComparisons ==
    {<<>>} \cup
    {[w \in {"short_term"} |-> [change |-> Int2F(c)]] : c \in {-6, -1, 6}}

\* their trend_analysis: no trend, a faint and volatile improvement, a
\* steady decline
SuggestionTrends ==
    {<<>>,
     [w \in {"short_term"} |->
         [direction |-> "improving", strength |-> Fin(1, 4),
          volatility |-> Fin(1, 2)]],
     [w \in {"short_term"} |->
         [direction |-> "declining", strength |-> Int2F(1),
          volatility |-> Int2F(0)]]}

\* their improvement_rate: no window, or a short-term consistency score
SuggestionRates ==
    {<<>>} \cup
    {[w \in {"short_term"} |-> [consistency |-> Int2F(c)]] : c \in {50, 100}}

\* the reports handed to get_improvement_suggestions
SuggestionReports ==
    UNION {[M -> [historical_comparison : SuggestionComparisons,
                  trend_analysis        : SuggestionTrends,
                  improvement_rate      : SuggestionRates]] :
              M \in SUBSET SummaryMetrics}

\* player_preferences: none, or a preferred practice time
Preferences ==
    {NoPreferences, [k \in {"preferred_practice_time"} |-> "evening"]}


----------------------------------------------------------------------------
(* The state machine *)

Idle == [op |-> "idle"]

NoResult == Returned("none")

\* PerformanceAnalyzer(threshold_multiplier) and ProgressTracker() constructed
Init ==
    /\ threshold_multiplier \in Multipliers
    /\ lookback_periods \in
          {InitLookbackPeriods(given) : given \in LookbackArguments}
    /\ call = Idle
    /\ result = NoResult

\* analyzer.detect_outliers(data)
DetectOutliers ==
    /\ call = Idle
    /\ \E data \in Series :
        /\ call' = [op |-> "detect_outliers", data |-> data,
                    data_after |-> DataAfterDetect(data, threshold_multiplier)]
        /\ result' = Returned(detect_outliers(data, threshold_multiplier))
    /\ UNCHANGED <<threshold_multiplier, lookback_periods>>

\* the caller runs analyzer.detect_outliers again on the series it holds
\* after a first run, and keeps the first result
DetectOutliersAgain ==
    /\ call.op = "detect_outliers"
    /\ call' = [op |-> "detect_outliers_again", data |-> call.data,
                data_after |-> DataAfterDetect(call.data_after,
                                               threshold_multiplier),
                rerun_on |-> call.data_after, first |-> result.val]
    /\ result' = Returned(detect_outliers(call.data_after,
                                          threshold_multiplier))
    /\ UNCHANGED <<threshold_multiplier, lookback_periods>>

\* analyzer._calculate_trend(data)
CalculateTrend ==
    /\ call = Idle
    /\ \E data \in Series :
        /\ call' = [op |-> "_calculate_trend", data |-> data]
        /\ result' = calculate_trend(data)
    /\ UNCHANGED <<threshold_multiplier, lookback_periods>>

\* analyzer._analyze_improvement_needs(raw_data, clean_data, metric)
AnalyzeImprovementNeeds ==
    /\ call = Idle
    /\ \E raw \in SeqsUpTo(Values, MaxRaw), clean \in SeqsUpTo(Values, MaxClean),
          metric \in MetricNames :
        /\ call' = [op |-> "_analyze_improvement_needs", raw_data |-> raw,
                    clean_data |-> clean, metric |-> metric]
        /\ result' = Returned(analyze_improvement_needs(raw, clean, metric))
    /\ UNCHANGED <<threshold_multiplier, lookback_periods>>

\* analyzer.analyze_performance(historical_data)
AnalyzePerformance ==
    /\ call = Idle
    /\ \E frame \in Frames :
        /\ call' = [op |-> "analyze_performance", historical_data |-> frame]
        /\ result' = analyze_performance(frame, threshold_multiplier)
    /\ UNCHANGED <<threshold_multiplier, lookback_periods>>

\* tracker._calculate_overall_progress(progress_report)
CalculateOverallProgress ==
    /\ call = Idle
    /\ \E report \in Reports :
        /\ call' = [op |-> "_calculate_overall_progress",
                    progress_report |-> report]
        /\ result' = calculate_overall_progress(report)
    /\ UNCHANGED <<threshold_multiplier, lookback_periods>>

\* tracker._track_milestones(current_value, target_value, num_milestones)
TrackMilestones ==
    /\ call = Idle
    /\ \E current \in MilestoneValues, target \in MilestoneValues,
          n \in MilestoneCounts :
        /\ call' = [op |-> "_track_milestones", current_value |-> current,
                    target_value |-> target, num_milestones |-> n]
        /\ result' = Returned(track_milestones(current, target, n))
    /\ UNCHANGED <<threshold_multiplier, lookback_periods>>


\* tracker._calculate_consistency(data)
CalculateConsistency ==
    /\ call = Idle
    /\ \E data \in SeqsUpTo(SignedValues, MaxWindow) :
        /\ call' = [op |-> "_calculate_consistency", data |-> data]
        /\ result' = Returned(calculate_consistency(data))
    /\ UNCHANGED <<threshold_multiplier, lookback_periods>>


\* tracker._analyze_trend(history)
AnalyzeTrend ==
    /\ call = Idle
    /\ \E history \in Histories, ticks \in WindowTicks :
        /\ call' = [op |-> "_analyze_trend", history |-> history,
                    ticks |-> ticks]
        /\ result' = Returned(analyze_trend(history, lookback_periods, ticks, 0))
    /\ UNCHANGED <<threshold_multiplier, lookback_periods>>

\* tracker.track_progress(current_stats, historical_data, target_metrics)
TrackProgress ==
    /\ call = Idle
    /\ \E current_stats \in CurrentStats, frame \in HistoryFrames,
          targets \in TargetMetrics, ticks \in CallTicks :
        /\ call' = [op |-> "track_progress", current_stats |-> current_stats,
                    historical_data |-> frame, target_metrics |-> targets,
                    ticks |-> ticks,
                    arguments_after |->
                        ArgumentsAfter([current_stats |-> current_stats,
                                        historical_data |-> frame,
                                        target_metrics |-> targets])]
        /\ result' = Returned(track_progress(current_stats, frame, targets,
                                             lookback_periods, ticks))
    /\ UNCHANGED <<threshold_multiplier, lookback_periods>>


\* tracker.generate_progress_summary(progress_report)
GenerateProgressSummary ==
    /\ call = Idle
    /\ \E report \in SummaryReports :
        /\ call' = [op |-> "generate_progress_summary",
                    progress_report |-> report,
                    arguments_after |->
                        ArgumentsAfter([progress_report |-> report])]
        /\ result' = generate_progress_summary(report)
    /\ UNCHANGED <<threshold_multiplier, lookback_periods>>


\* the caller runs tracker.track_progress again with the inputs of a first
\* call, at the same clock reading or one tick later, and keeps the first
\* report
TrackProgressAgain ==
    /\ call.op = "track_progress"
    /\ call.ticks = {}
    /\ \E ticks \in LaterTicks :
        /\ call' = [op |-> "track_progress_again",
                    current_stats |-> call.current_stats,
                    historical_data |-> call.historical_data,
                    target_metrics |-> call.target_metrics,
                    ticks |-> ticks, first |-> result.val]
        /\ result' = Returned(track_progress(call.current_stats,
                                             call.historical_data,
                                             call.target_metrics,
                                             lookback_periods, ticks))
    /\ UNCHANGED <<threshold_multiplier, lookback_periods>>


\* tracker.get_improvement_suggestions(progress_report, player_preferences)
GetImprovementSuggestions ==
    /\ call = Idle
    /\ \E report \in SuggestionReports, preferences \in Preferences :
        /\ call' = [op |-> "get_improvement_suggestions",
                    progress_report |-> report,
                    player_preferences |-> preferences,
                    arguments_after |->
                        ArgumentsAfter([progress_report |-> report,
                                        player_preferences |-> preferences])]
        /\ result' = Returned(get_improvement_suggestions(report, preferences))
    /\ UNCHANGED <<threshold_multiplier, lookback_periods>>


\* the call is over: the caller has its result (or its exception) and
\* neither object keeps anything of it
Return ==
    /\ call # Idle
    /\ call' = Idle
    /\ result' = NoResult
    /\ UNCHANGED <<threshold_multiplier, lookback_periods>>

Next ==
    \/ DetectOutliers
    \/ DetectOutliersAgain
    \/ CalculateTrend
    \/ AnalyzeImprovementNeeds
    \/ AnalyzePerformance
    \/ CalculateOverallProgress
    \/ TrackMilestones
    \/ CalculateConsistency
    \/ AnalyzeTrend
    \/ TrackProgress
    \/ TrackProgressAgain
    \/ GenerateProgressSummary
    \/ GetImprovementSuggestions
    \/ Return

Spec == Init /\ [][Next]_vars

----------------------------------------------------------------------------
(* Properties *)

\* the default threshold multiplier, 1.5
DefaultMultiplier == Fin(3, 2)

\* the DataFrame that holds the scenario's series as its accuracy column
ScenarioFrame == [c \in {"accuracy"} |-> ScenarioSeries]

\* C1: every overall progress score the summarizer returns lies in [0, 100],
\* whatever the milestone progress and the trend strengths of the report.
C1_OverallProgressInRange ==
    (call.op = "_calculate_overall_progress" /\ result.ok) =>
        /\ result.val.k = "fin"
        /\ 0 <= result.val.n
        /\ result.val.n <= 100 * result.val.d

\* C1's case: a report whose only metric has full milestone progress and an
\* improving trend of strength 1 (raw score 200), and the score returned.
C1_Witness ==
    /\ call.op = "_calculate_overall_progress"
    /\ result.ok
    /\ \E m \in DOMAIN call.progress_report :
        /\ DOMAIN call.progress_report = {m}
        /\ DOMAIN call.progress_report[m].trend_analysis # {}
        /\ MetricScore(call.progress_report[m]) = Int2F(200)
    /\ result.val = Int2F(100)

\* C2 (as claimed): when a metric of the report has no trend data, the
\* summarizer returns a score, that metric adding 0 to the average.
C2_NoTrendContributesZero ==
    (/\ call.op = "_calculate_overall_progress"
     /\ \E m \in DOMAIN call.progress_report :
            DOMAIN call.progress_report[m].trend_analysis = {})
    => LET report == call.progress_report
           scores == [m \in DOMAIN report |->
                        IF DOMAIN report[m].trend_analysis = {} THEN Int2F(0)
                        ELSE MetricScore(report[m])]
       IN  result = Returned(Clamp(FDiv(SumOver(scores, DOMAIN report),
                                        Int2F(Cardinality(DOMAIN report)))))

\* C3 (as claimed): a batch analysis call never ends in an exception, and
\* its report holds an entry for every metric column of the input.
C3_BatchNeverRaises ==
    (call.op = "analyze_performance") =>
        /\ result.ok
        /\ DOMAIN result.val =
                DOMAIN call.historical_data \cap (MetricNames \ {UnknownMetric})

\* C4 (as claimed): when the clean series has zero standard deviation, the
\* classification (of a non-empty raw series, called directly or by
\* analyze_performance) returns z_score = 0, and needs_improvement = false
\* for every higher-is-better metric.
C4_ZeroStdZScoreZero ==
    /\ (/\ call.op = "_analyze_improvement_needs"
        /\ Len(call.raw_data) > 0
        /\ Std(call.clean_data) = RZero)
       => /\ result.ok
          /\ result.val.z_score = RZero
          /\ MetricConfig(call.metric).higher_better
                => ~result.val.needs_improvement
    /\ (call.op = "analyze_performance" /\ result.ok) =>
            \A c \in DOMAIN result.val :
                result.val[c].clean_stats.std = RZero =>
                    /\ result.val[c].improvement_analysis.z_score = RZero
                    /\ MetricConfig(c).higher_better =>
                        ~result.val[c].improvement_analysis.needs_improvement

\* C5 (as claimed): _calculate_trend on fewer than 2 points ends in the
\* InsufficientData outcome, and on 2 or more points returns a TrendInfo.
C5_ShortSeriesInsufficientData ==
    (call.op = "_calculate_trend") =>
        IF Len(call.data) < 2
        THEN ~result.ok /\ result.exc = "InsufficientData"
        ELSE result.ok

\* C6: for a non-empty series the mask has the length of the series, entry i
\* is true iff value i is strictly below Q1 - k*IQR or strictly above
\* Q3 + k*IQR, total_outliers counts the true entries and outlier_percentage
\* is 100 * total_outliers / len.
C6_OutlierMask ==
    (call.op = "detect_outliers" /\ Len(call.data) > 0) =>
        LET data  == call.data
            mask  == result.val.outliers
            stats == result.val.stats
            Q1    == Quantile(data, 1, 4)
            Q3    == Quantile(data, 3, 4)
            lb    == FSub(Q1, FMul(threshold_multiplier, FSub(Q3, Q1)))
            ub    == FAdd(Q3, FMul(threshold_multiplier, FSub(Q3, Q1)))
        IN  /\ result.ok
            /\ DOMAIN mask = 1..Len(data)
            /\ \A i \in 1..Len(data) :
                mask[i] <=> (data[i] * lb.d < lb.n \/ data[i] * ub.d > ub.n)
            /\ stats.lower_bound = lb
            /\ stats.upper_bound = ub
            /\ stats.total_outliers =
                    Cardinality({i \in 1..Len(data) : mask[i]})
            /\ stats.outlier_percentage.k = "fin"
            /\ stats.outlier_percentage.n * Len(data) =
                    100 * stats.total_outliers * stats.outlier_percentage.d

\* C6's case: a series with a flagged value and a value equal to a bound,
\* which is not flagged.
C6_Witness ==
    /\ call.op = "detect_outliers"
    /\ result.ok
    /\ \E i, j \in 1..Len(call.data) :
        /\ result.val.outliers[i]
        /\ Int2F(call.data[j]) = result.val.stats.lower_bound
        /\ ~result.val.outliers[j]

\* C7 (as claimed): for an empty series detect_outliers returns an empty
\* mask and outlier_percentage = 0.
C7_EmptySeriesPercentageZero ==
    (call.op = "detect_outliers" /\ Len(call.data) = 0) =>
        /\ result.ok
        /\ result.val.outliers = <<>>
        /\ result.val.stats.outlier_percentage = Int2F(0)

\* C8 (amended): for the scenario series with multiplier 1.5, the bounds are
\* 12.5 and 104.5 and detect_outliers flags no value, so the clean series is
\* the whole series, of mean 60.9.
C8_ScenarioNoOutliers ==
    /\ (/\ call.op = "detect_outliers"
        /\ call.data = ScenarioSeries
        /\ threshold_multiplier = DefaultMultiplier)
       => /\ result.ok
          /\ result.val.outliers = [i \in 1..Len(ScenarioSeries) |-> FALSE]
          /\ result.val.stats.total_outliers = 0
          /\ result.val.stats.lower_bound = Fin(25, 2)
          /\ result.val.stats.upper_bound = Fin(209, 2)
    /\ (/\ call.op = "analyze_performance"
        /\ call.historical_data = ScenarioFrame
        /\ threshold_multiplier = DefaultMultiplier)
       => /\ result.ok
          /\ result.val["accuracy"].outlier_stats.total_outliers = 0
          /\ result.val["accuracy"].clean_stats.mean = Fin(609, 10)

\* C8's case: detect_outliers has run on the scenario series with 1.5
C8_Witness ==
    /\ call.op = "detect_outliers"
    /\ call.data = ScenarioSeries
    /\ threshold_multiplier = DefaultMultiplier
    /\ result.ok
    /\ result.val.stats.total_outliers = 0

\* C8 (as claimed): for the scenario series with multiplier 1.5,
\* detect_outliers flags exactly the three trailing values 40.
C8_ScenarioTrailingOutliers ==
    (/\ call.op = "detect_outliers"
     /\ call.data = ScenarioSeries
     /\ threshold_multiplier = DefaultMultiplier)
    => /\ result.ok
       /\ result.val.outliers = [i \in 1..Len(ScenarioSeries) |-> i > 7]

\* C9 (amended): for the scenario series with multiplier 1.5, the
\* classification of accuracy has recent mean 52.2, a z_score strictly
\* between -1 and 0 (z^2 = 22707/62630, z about -0.60) and
\* needs_improvement = false.
C9_ScenarioNoImprovementNeeded ==
    (/\ call.op = "analyze_performance"
     /\ call.historical_data = ScenarioFrame
     /\ threshold_multiplier = DefaultMultiplier)
    => /\ result.ok
       /\ LET ia == result.val["accuracy"].improvement_analysis
          IN  /\ ia.recent_performance.mean = Fin(261, 5)
              /\ ia.z_score.k = "fin"
              /\ ia.z_score.sign = -1
              /\ ia.z_score.sq = Fin(22707, 62630)
              /\ ia.z_score.sq.n < ia.z_score.sq.d
              /\ ~ia.needs_improvement

\* C9's case: analyze_performance has classified the scenario's accuracy
C9_Witness ==
    /\ call.op = "analyze_performance"
    /\ call.historical_data = ScenarioFrame
    /\ threshold_multiplier = DefaultMultiplier
    /\ result.ok
    /\ ~result.val["accuracy"].improvement_analysis.needs_improvement

\* C9 (as claimed): for the scenario series with multiplier 1.5, the
\* classification of accuracy has a z_score below -1 and
\* needs_improvement = true.
C9_ScenarioNeedsImprovement ==
    (/\ call.op = "analyze_performance"
     /\ call.historical_data = ScenarioFrame
     /\ threshold_multiplier = DefaultMultiplier)
    => /\ result.ok
       /\ LET ia == result.val["accuracy"].improvement_analysis
          IN  /\ RLtF(ia.z_score, Int2F(-1))
              /\ ia.needs_improvement

\* z < -1, read off the sign and the square of z
BelowMinusOne(z) ==
    \/ z.k = "inf" /\ z.sign < 0
    \/ z.k = "fin" /\ z.sign < 0 /\ z.sq.n > z.sq.d

\* z > 1, read off the sign and the square of z
AboveOne(z) ==
    \/ z.k = "inf" /\ z.sign > 0
    \/ z.k = "fin" /\ z.sign > 0 /\ z.sq.n > z.sq.d

\* C10: needs_improvement is true exactly when z_score > 1 for reaction_time
\* and exactly when z_score < -1 for every other metric name; a z_score equal
\* to the threshold does not trigger it.
C10_ThresholdStrict ==
    /\ (call.op = "_analyze_improvement_needs") =>
            /\ result.ok
            /\ result.val.needs_improvement <=>
                    IF call.metric = "reaction_time"
                    THEN AboveOne(result.val.z_score)
                    ELSE BelowMinusOne(result.val.z_score)
    /\ (call.op = "analyze_performance" /\ result.ok) =>
            \A c \in DOMAIN result.val :
                LET ia == result.val[c].improvement_analysis
                IN  ia.needs_improvement <=>
                        IF c = "reaction_time" THEN AboveOne(ia.z_score)
                        ELSE BelowMinusOne(ia.z_score)

\* C10's case: a z_score exactly at the threshold of the metric, which is an
\* unknown name or reaction_time
C10_Witness ==
    /\ call.op = "_analyze_improvement_needs"
    /\ result.ok
    /\ result.val.z_score.k = "fin"
    /\ result.val.z_score.sq = Int2F(1)
    /\ \/ call.metric = UnknownMetric /\ result.val.z_score.sign = -1
       \/ call.metric = "reaction_time" /\ result.val.z_score.sign = 1
    /\ ~result.val.needs_improvement

\* the milestones of a result of _track_milestones, whatever list they are in
AllMilestones(r) ==
    r.completed_milestones
        \o (IF r.next_milestone = NoMilestone THEN <<>> ELSE <<r.next_milestone>>)
        \o r.remaining_milestones

\* the values of a list of milestones
MilestoneField(ms, f) == [i \in 1..Len(ms) |-> ms[i][f]]

\* a call of _track_milestones with distinct current and target values
MilestoneCall ==
    /\ call.op = "_track_milestones"
    /\ call.current_value # call.target_value

\* C13: for current # target and n milestones, the milestones of
\* _track_milestones have the levels 1..n, milestone i has the value
\* current + i * (target - current) / n and the progress 100 * i / n, and the
\* last one is the target; current = 50, target = 100, n = 4 gives the
\* values 62.5, 75, 87.5, 100 with the progress 25, 50, 75, 100.
C13_MilestoneInterpolation ==
    MilestoneCall =>
        LET c  == call.current_value
            t  == call.target_value
            n  == call.num_milestones
            ms == AllMilestones(result.val)
        IN  /\ {ms[k].level : k \in 1..Len(ms)} = 1..n
            /\ Len(ms) = n
            /\ \A k \in 1..Len(ms) :
                LET i == ms[k].level
                IN  /\ ms[k].value =
                          FDiv(FAdd(FMul(Int2F(n), c), FMul(Int2F(i), FSub(t, c))),
                               Int2F(n))
                    /\ ms[k].progress = Fin(100 * i, n)
                    /\ i = n => ms[k].value = t
            /\ (c = Int2F(50) /\ t = Int2F(100) /\ n = 4) =>
                /\ MilestoneField(ms, "value") =
                      <<Fin(125, 2), Int2F(75), Fin(175, 2), Int2F(100)>>
                /\ MilestoneField(ms, "progress") =
                      <<Int2F(25), Int2F(50), Int2F(75), Int2F(100)>>

\* the documented example has been computed: 50 -> 100 in 4 milestones
C13_Witness ==
    /\ MilestoneCall
    /\ call.current_value = Int2F(50)
    /\ call.target_value = Int2F(100)
    /\ call.num_milestones = 4
    /\ result.val.next_milestone.value = Fin(125, 2)
    /\ Len(result.val.remaining_milestones) = 3

\* C14: when the target is above current_value, a milestone is in
\* completed_milestones iff current_value >= its value, the lowest-level
\* milestone not reached is next_milestone and all other milestones not
\* reached are in remaining_milestones, in the order of their levels.
C14_CompletionTowardsHigherTarget ==
    (MilestoneCall /\ FGt(call.target_value, call.current_value)) =>
        LET c       == call.current_value
            r       == result.val
            ms      == AllMilestones(r)
            reached == {k \in 1..Len(ms) : FLe(ms[k].value, c)}
            open    == {ms[k].level : k \in (1..Len(ms)) \ reached}
        IN  /\ {ms[k].level : k \in reached} =
                  {r.completed_milestones[k].level :
                      k \in 1..Len(r.completed_milestones)}
            /\ open # {} =>
                /\ r.next_milestone # NoMilestone
                /\ \A l \in open : r.next_milestone.level <= l
                /\ {r.remaining_milestones[k].level :
                      k \in 1..Len(r.remaining_milestones)} =
                      open \ {r.next_milestone.level}
            /\ open = {} =>
                /\ r.next_milestone = NoMilestone
                /\ r.remaining_milestones = <<>>

\* a target above the current value with several milestones: the first is
\* the next one, the others remain
C14_Witness ==
    /\ MilestoneCall
    /\ FGt(call.target_value, call.current_value)
    /\ call.num_milestones >= 3
    /\ result.val.completed_milestones = <<>>
    /\ result.val.next_milestone.level = 1
    /\ Len(result.val.remaining_milestones) = call.num_milestones - 1

\* C15: when the target is below current_value, completion is mirrored: a
\* milestone is completed iff current_value <= its value, so the milestones
\* strictly between target and current are not reported as completed and a
\* next_milestone exists.
C15_CompletionTowardsLowerTarget ==
    (MilestoneCall /\ FLt(call.target_value, call.current_value)) =>
        LET c  == call.current_value
            r  == result.val
            ms == AllMilestones(r)
        IN  /\ \A k \in 1..Len(r.completed_milestones) :
                FLe(c, r.completed_milestones[k].value)
            /\ \A k \in 1..Len(ms) :
                FLe(c, ms[k].value) =>
                    \E j \in 1..Len(r.completed_milestones) :
                        r.completed_milestones[j] = ms[k]
            /\ r.next_milestone # NoMilestone

\* C16: the total_progress of _track_milestones lies in [0, 100] and is the
\* percentage of the distance toward the target already covered; the
\* milestones start at current_value, so nothing of the distance to a target
\* that differs from it is covered and the percentage is 0.
C16_TotalProgressIsDistanceCovered ==
    call.op = "_track_milestones" =>
        /\ FLe(Int2F(0), result.val.total_progress)
        /\ FLe(result.val.total_progress, Int2F(100))
        /\ MilestoneCall => result.val.total_progress = Int2F(0)


\* the score 100 * (1 - m) lies in [0, 100]: m is a number of [0, 1]
ScoreInRange(s) ==
    /\ s.minus.k = "fin"
    /\ ~RLtF(s.minus, Int2F(0))
    /\ ~RGtF(s.minus, Int2F(1))

\* C20: the consistency score of a window is 100 * (1 - min(cv, 1)) with
\* cv = std / mean, lies in [0, 100] whatever the sign of the mean, and is
\* exactly 100 for a window of a single point.
C20_ConsistencyInRange ==
    call.op = "_calculate_consistency" =>
        /\ Len(call.data) >= 2 =>
              result.val =
                  Score(MinWithOne(RDivF(Std(call.data), Mean(call.data))))
        /\ ScoreInRange(result.val)
        /\ Len(call.data) = 1 => result.val = Score(RZero)


\* the number of rows of a history stamped at or after now - days
ObservationsIn(history, now, days) ==
    Cardinality({i \in 1..Len(history) :
                    history[i].t >= now - days * TicksPerDay})

\* the keys of current_stats
StatKeys(stats) == {stats[i].metric : i \in 1..Len(stats)}

\* the metrics of a frame that have a column with a value in it
WithHistory(frame) ==
    {m \in DOMAIN frame.columns :
        \E i \in 1..Len(frame.index) : frame.columns[m][i] # NoValue}

\* the clock reading at which _analyze_trend cuts window w for metric m
\* during the call of track_progress in progress
TrendReading(m, w) ==
    LET stats  == call.current_stats
        i      == CHOOSE j \in 1..Len(stats) : stats[j].metric = m
        before == {j \in 1..(i - 1) :
                      stats[j].metric \in WithHistory(call.historical_data)}
    IN  Now(call.ticks, ReadingsPerMetric * Cardinality(before)
                            + Len(WindowOrder) + WindowIndex(w) - 1)

\* C19: for every metric and every configured lookback window,
\* trend_analysis has an entry for the window iff the window holds at least
\* 2 observations when it is cut; no trend comes from 0 or 1 points.
C19_TrendNeedsTwoPoints ==
    /\ call.op = "_analyze_trend" =>
        \A w \in DOMAIN lookback_periods :
            w \in DOMAIN result.val <=>
                ObservationsIn(call.history,
                               Now(call.ticks, WindowIndex(w) - 1),
                               lookback_periods[w]) >= 2
    /\ call.op = "track_progress" =>
        \A m \in DOMAIN result.val : \A w \in DOMAIN lookback_periods :
            w \in DOMAIN result.val[m].trend_analysis <=>
                ObservationsIn(DropNa(call.historical_data, m),
                               TrendReading(m, w),
                               lookback_periods[w]) >= 2

\* a history with one observation in the short-term window and more in the
\* medium-term window: a trend for the second only
C19_Witness ==
    /\ call.op = "_analyze_trend"
    /\ ObservationsIn(call.history, Now(call.ticks, 0),
                      lookback_periods["short_term"]) = 1
    /\ "short_term" \notin DOMAIN result.val
    /\ "medium_term" \in DOMAIN result.val

\* C18: the report of track_progress has an entry for a metric iff the
\* metric is a key of current_stats and a column of the history with at
\* least one value; any other metric is omitted without an exception, and
\* the entries of the reported metrics are those of the call that does not
\* ask for the omitted ones.
C18_ReportedMetrics ==
    call.op = "track_progress" =>
        LET stats == call.current_stats
            frame == call.historical_data
            asked == SelectSeq(stats,
                               LAMBDA item : item.metric \in WithHistory(frame))
        IN  /\ result.ok
            /\ DOMAIN result.val = StatKeys(stats) \cap WithHistory(frame)
            /\ \A m \in DOMAIN result.val :
                  result.val[m] =
                      track_progress(asked, frame, call.target_metrics,
                                     lookback_periods, call.ticks)[m]

\* two metrics asked, one with a history and one whose column holds no
\* value or does not exist: one entry
C18_Witness ==
    /\ call.op = "track_progress"
    /\ Len(call.current_stats) = 2
    /\ "reaction_time" \in DOMAIN call.historical_data.columns
    /\ call.ticks # {}
    /\ result.ok
    /\ DOMAIN result.val = {"accuracy"}

\* the index of a frame is not strictly increasing: timestamps out of order
\* or duplicated
Malformed(index) ==
    \E i, j \in 1..Len(index) : i < j /\ index[i] >= index[j]

\* C17: a history whose timestamps are unsorted or duplicated is rejected
\* with a validation error before any statistic is computed: track_progress
\* returns no report for it.
C17_MalformedHistoryRejected ==
    (call.op = "track_progress" /\ Malformed(call.historical_data.index)) =>
        ~result.ok


\* the recent mean is the suggested target: it differs from the historical
\* mean by the offset of the target, a standard deviation that is positive
RecentEqualsTarget(ia) ==
    LET target == ia.suggested_target
        diff   == FSub(ia.recent_performance.mean, target.base)
    IN  /\ target.offset.k = "fin"
        /\ target.offset.sign # 0
        /\ diff.k = "fin"
        /\ Sign(diff.n) = target.offset.sign
        /\ FMul(diff, diff) = target.offset.sq

\* C11: for any metric with a positive historical std, when the recent
\* mean equals the suggested_target derived from the same historical mean
\* and std (mean + std, or mean - std for reaction_time), the
\* classification yields needs_improvement = false.
C11_TargetReachedNeedsNoImprovement ==
    (call.op = "_analyze_improvement_needs"
        /\ RecentEqualsTarget(result.val)) =>
            ~result.val.needs_improvement

\* a reaction_time whose recent mean is its suggested target, one standard
\* deviation below the historical mean
C11_Witness ==
    /\ call.op = "_analyze_improvement_needs"
    /\ call.metric = "reaction_time"
    /\ RecentEqualsTarget(result.val)
    /\ result.val.suggested_target.offset.sign < 0
    /\ ~result.val.needs_improvement

SummaryReturned == call.op = "generate_progress_summary" /\ result.ok

\* the entries of a list of the summary that name metric m
EntriesOf(list, m) == {i \in 1..Len(list) : list[i].metric = m}

\* C21: in the summary a metric is listed in key_improvements iff its
\* short-term change is above +5 and in areas_of_concern iff it is below -5;
\* with a change in [-5, +5] or without a short-term entry it is in neither
\* list, and no metric is in both.
C21_ImprovementsAndConcerns ==
    SummaryReturned =>
        \A m \in DOMAIN call.progress_report :
            LET hc       == call.progress_report[m].historical_comparison
                has      == "short_term" \in DOMAIN hc
                improved == EntriesOf(result.val.key_improvements, m) # {}
                declined == EntriesOf(result.val.areas_of_concern, m) # {}
            IN  /\ improved <=> (has /\ FGt(hc["short_term"].change, Int2F(5)))
                /\ declined <=> (has /\ FLt(hc["short_term"].change, Int2F(-5)))
                /\ ~(improved /\ declined)

\* one metric listed as an improvement, the other with a change of exactly
\* 5 and in neither list
C21_Witness ==
    /\ SummaryReturned
    /\ DOMAIN call.progress_report = SummaryMetrics
    /\ ShortTermChange(call.progress_report["reaction_time"]) = Int2F(5)
    /\ Len(result.val.key_improvements) = 1
    /\ result.val.key_improvements[1].metric = "accuracy"
    /\ result.val.areas_of_concern = <<>>

\* C22: for each metric, recent_milestones has exactly one entry iff the
\* metric has a completed milestone, and the entry is the completed
\* milestone closest to the target (the highest level); next_targets has
\* exactly one entry iff the metric has a next_milestone, with its value
\* and progress.
C22_MilestonesOfSummary ==
    SummaryReturned =>
        \A m \in DOMAIN call.progress_report :
            LET mp     == call.progress_report[m].milestone_progress
                done   == mp.completed_milestones
                recent == EntriesOf(result.val.recent_milestones, m)
                next   == EntriesOf(result.val.next_targets, m)
            IN  /\ Cardinality(recent) = IF done = <<>> THEN 0 ELSE 1
                /\ \A i \in recent :
                      /\ \A k \in 1..Len(done) :
                            done[k].level <= result.val.recent_milestones[i].level
                      /\ \E k \in 1..Len(done) :
                            /\ done[k].level = result.val.recent_milestones[i].level
                            /\ done[k].value = result.val.recent_milestones[i].value
                /\ Cardinality(next) =
                      IF mp.next_milestone = NoMilestone THEN 0 ELSE 1
                /\ \A i \in next :
                      /\ result.val.next_targets[i].target = mp.next_milestone.value
                      /\ result.val.next_targets[i].progress =
                            mp.next_milestone.progress

\* a metric with two completed milestones, the second reported, and another
\* with a next milestone
C22_Witness ==
    /\ SummaryReturned
    /\ Len(result.val.recent_milestones) = 1
    /\ result.val.recent_milestones[1].level = 2
    /\ Len(result.val.next_targets) = 1
    /\ result.val.next_targets[1].metric # result.val.recent_milestones[1].metric


\* the levels of a list of milestones ascend
Ascending(ms) == \A i, j \in 1..Len(ms) : i < j => ms[i].level < ms[j].level

\* C29: for target # current and n milestones, every level 1..n appears
\* exactly once across completed_milestones, next_milestone and
\* remaining_milestones, both lists ascend by level and next_milestone is
\* below every remaining milestone; for target = current both lists are
\* empty, next_milestone is None and total_progress is 0.
C29_MilestonePartition ==
    call.op = "_track_milestones" =>
        LET r  == result.val
            ms == AllMilestones(r)
        IN  IF call.target_value # call.current_value
            THEN /\ Len(ms) = call.num_milestones
                 /\ \A l \in 1..call.num_milestones :
                       Cardinality({k \in 1..Len(ms) : ms[k].level = l}) = 1
                 /\ Ascending(r.completed_milestones)
                 /\ Ascending(r.remaining_milestones)
                 /\ \A k \in 1..Len(r.remaining_milestones) :
                       /\ r.next_milestone # NoMilestone
                       /\ r.next_milestone.level < r.remaining_milestones[k].level
            ELSE /\ r.completed_milestones = <<>>
                 /\ r.remaining_milestones = <<>>
                 /\ r.next_milestone = NoMilestone
                 /\ r.total_progress = Int2F(0)

\* three milestones towards a lower target: all completed, in order
C29_Witness ==
    /\ MilestoneCall
    /\ call.num_milestones = 3
    /\ MilestoneField(result.val.completed_milestones, "level") = <<1, 2, 3>>
    /\ result.val.next_milestone = NoMilestone

\* C30: the total_progress of _track_milestones is 0 whenever
\* target >= current_value and 100 whenever target < current_value, whatever
\* the distance; with target > current no milestone is completed, and with
\* target < current all are and next_milestone is None.
C30_TotalProgressIsZeroOrHundred ==
    call.op = "_track_milestones" =>
        LET r == result.val
            c == call.current_value
            t == call.target_value
        IN  /\ FLe(c, t) => r.total_progress = Int2F(0)
            /\ FLt(t, c) => /\ r.total_progress = Int2F(100)
                            /\ Len(r.completed_milestones) = call.num_milestones
                            /\ r.next_milestone = NoMilestone
            /\ FLt(c, t) => r.completed_milestones = <<>>

\* the documented decrease 250 -> 200: reported as fully done
C30_Witness ==
    /\ call.op = "_track_milestones"
    /\ call.current_value = Int2F(250)
    /\ call.target_value = Int2F(200)
    /\ result.val.total_progress = Int2F(100)
    /\ result.val.next_milestone = NoMilestone

\* the value of the item of current_stats for metric m
StatValue(stats, m) ==
    stats[CHOOSE i \in 1..Len(stats) : stats[i].metric = m].value

\* C27: when target_metrics has no entry for a reported metric, its
\* milestone_progress is the one computed with the target 1.2 x
\* current_value, for every current value, 0 and negative ones included.
C27_DefaultTarget ==
    call.op = "track_progress" =>
        \A m \in DOMAIN result.val :
            m \notin DOMAIN call.target_metrics =>
                LET current == StatValue(call.current_stats, m)
                IN  result.val[m].milestone_progress =
                        track_milestones(current,
                            FDiv(FMul(Int2F(12), current), Int2F(10)),
                            DefaultNumMilestones)

\* a negative current value without a target: the default target lies
\* below it
C27_Witness ==
    /\ call.op = "track_progress"
    /\ call.target_metrics = <<>>
    /\ "accuracy" \in DOMAIN result.val
    /\ result.val["accuracy"].current_value = Int2F(-1)
    /\ result.val["accuracy"].milestone_progress.total_progress = Int2F(100)

\* the numerator of the least-squares slope of y against 0, 1, ..
SlopeNumerator(y) ==
    Len(y) * Sum([i \in 1..Len(y) |-> (i - 1) * y[i]])
        - Sum([i \in 1..Len(y) |-> i - 1]) * Sum(y)

\* C25: for every series of at least 2 observations the direction follows
\* the sign of the least-squares slope against the 0-based index
\* (improving for a positive slope, declining for a negative one, a flat
\* series not improving), and the strength is weak for |r| <= 0.3, moderate
\* for 0.3 < |r| <= 0.7 and strong for |r| > 0.7.
C25_DirectionAndStrength ==
    /\ (call.op = "_calculate_trend" /\ Len(call.data) >= 2) =>
        LET num == SlopeNumerator(call.data)
            rsq == result.val.r_squared
        IN  /\ result.ok
            /\ Sign(result.val.slope.n) = Sign(num)
            /\ num > 0 => result.val.direction = "improving"
            /\ num < 0 => result.val.direction = "declining"
            /\ num = 0 => result.val.direction # "improving"
            /\ result.val.strength =
                  IF FLe(rsq, Fin(9, 100)) THEN "weak"
                  ELSE IF FLe(rsq, Fin(49, 100)) THEN "moderate"
                  ELSE "strong"
    /\ call.op = "_analyze_trend" =>
        \A w \in DOMAIN result.val :
            LET num == SlopeNumerator(RowValues(
                           PeriodData(call.history,
                                      Now(call.ticks, WindowIndex(w) - 1),
                                      lookback_periods[w])))
            IN  /\ num > 0 => result.val[w].direction = "improving"
                /\ num < 0 => result.val[w].direction = "declining"
                /\ num = 0 => result.val[w].direction # "improving"

\* a flat series of three observations: slope 0, reported as declining
C25_Witness ==
    /\ call.op = "_calculate_trend"
    /\ Len(call.data) = 3
    /\ SlopeNumerator(call.data) = 0
    /\ result.val.direction = "declining"
    /\ result.val.strength = "weak"

\* the r-th last observations of a series: the last r, or all of them
LastOf(s, r) ==
    [i \in 1..(IF Len(s) < r THEN Len(s) ELSE r) |->
        s[Len(s) - (IF Len(s) < r THEN Len(s) ELSE r) + i]]

\* the observations of s within the bounds lo and hi, in order
Within(s, lo, hi) ==
    SelectSeq(s, LAMBDA v : ~FLt(Int2F(v), lo) /\ ~FGt(Int2F(v), hi))

\* C26: in the classification of analyze_performance, recent_mean is the
\* mean of the last 5 raw observations (all of them when fewer), outliers
\* included, while the historical mean and std are those of the values not
\* flagged as outliers.
C26_RecentRawHistoricalClean ==
    (call.op = "analyze_performance" /\ result.ok) =>
        \A c \in DOMAIN result.val :
            LET raw   == call.historical_data[c]
                ia    == result.val[c].improvement_analysis
                st    == result.val[c].outlier_stats
                clean == Within(raw, st.lower_bound, st.upper_bound)
            IN  /\ ia.recent_performance.mean = Mean(LastOf(raw, 5))
                /\ ia.suggested_target.base = Mean(clean)
                /\ RAbs(ia.suggested_target.offset) = Std(clean)

\* the last observation is flagged: it counts in recent_mean (18/5) and not
\* in the historical mean
C26_Witness ==
    /\ call.op = "analyze_performance"
    /\ result.ok
    /\ call.historical_data = [c \in {"accuracy"} |-> RecentOutlierSeries]
    /\ result.val["accuracy"].outlier_stats.total_outliers > 0
    /\ result.val["accuracy"].improvement_analysis.recent_performance.mean
           = Fin(18, 5)
    /\ FLt(result.val["accuracy"].improvement_analysis.suggested_target.base,
           Int2F(3))


\* C28: in every report of track_progress, for each metric the window keys
\* of historical_comparison and improvement_rate are identical and every
\* window key of trend_analysis is a key of historical_comparison, although
\* each of the three maps reads the current time itself.
C28_WindowKeysAgree ==
    call.op = "track_progress" =>
        \A m \in DOMAIN result.val :
            /\ DOMAIN result.val[m].historical_comparison =
                  DOMAIN result.val[m].improvement_rate
            /\ DOMAIN result.val[m].trend_analysis \subseteq
                  DOMAIN result.val[m].historical_comparison

\* C24: track_progress is a pure transform of its inputs: a second call
\* with the same window configuration, current_stats, history and targets
\* returns the report of the first, whenever it is made.
C24_SameInputsSameReport ==
    call.op = "track_progress_again" => result.val = call.first


\* C23: the lookback windows default to short_term 7, medium_term 30 and
\* long_term 90 days when none is given, and no operation (track_progress,
\* generate_progress_summary, get_improvement_suggestions) modifies them,
\* the only state of the tracker, nor the arguments of the caller.
C23_ConfigurationAndArgumentsUntouched ==
    /\ DOMAIN lookback_periods = {"short_term", "medium_term", "long_term"}
    /\ lookback_periods["short_term"] = 7
    /\ lookback_periods["medium_term"] = 30
    /\ lookback_periods["long_term"] = 90
    /\ call.op = "track_progress" =>
          call.arguments_after =
              [current_stats   |-> call.current_stats,
               historical_data |-> call.historical_data,
               target_metrics  |-> call.target_metrics]
    /\ call.op = "generate_progress_summary" =>
          call.arguments_after = [progress_report |-> call.progress_report]
    /\ call.op = "get_improvement_suggestions" =>
          call.arguments_after =
              [progress_report    |-> call.progress_report,
               player_preferences |-> call.player_preferences]

\* a second track_progress has returned a report on a history with missing
\* cells: two operations later the windows are the default ones
C23_Witness ==
    /\ call.op = "track_progress_again"
    /\ DOMAIN result.val # {}
    /\ \E m \in DOMAIN call.historical_data.columns :
          \E i \in 1..Len(call.historical_data.index) :
              call.historical_data.columns[m][i] = NoValue
    /\ lookback_periods = DefaultLookbackPeriods


====
